---- MODULE Spec2Model ----
(***************************************************************************)
(* Model of the todo HTTP service of src/main.go: the four /todo handlers  *)
(* and the landing page over one MongoDB collection, and the supervisor    *)
(* (main) that serves until an interrupt, disconnects the store and shuts  *)
(* the HTTP server down.                                                   *)
(*                                                                         *)
(* Values keep their wire and storage types: a JSON body field is absent,  *)
(* a string or a boolean; a BSON field is a boolean or a string; an        *)
(* ObjectID is 12 bytes and its text form is 24 hex digits.                *)
(***************************************************************************)
EXTENDS Integers, Sequences, FiniteSets, TLC

\* ---------------------------------------------------------------- bounds
\* Number of records the run may insert (caps primitive.NewObjectID's counter).
MaxIds == 2
\* Number of requests the HTTP server may be handling at the same time.
MaxInflight == 1
\* Length of the Shutdown grace period, in timer ticks (5 s in the code).
GraceTicks == 1

\* ------------------------------------------------------- program constants
StatusOK == 200
StatusCreated == 201
StatusBadRequest == 400
\* primitive.ObjectID is [12]byte
ObjectIDBytes == 12

\* ------------------------------------------------------------- ObjectID
HexDigits == <<"0","1","2","3","4","5","6","7","8","9","a","b","c","d","e","f">>
UpperHexDigits == <<"0","1","2","3","4","5","6","7","8","9","A","B","C","D","E","F">>

\* value of each hex character (encoding/hex accepts both cases)
HexValues ==
  [c \in {HexDigits[i] : i \in 1..16} \cup {UpperHexDigits[i] : i \in 1..16} |->
     IF \E i \in 1..16 : HexDigits[i] = c
       THEN (CHOOSE i \in 1..16 : HexDigits[i] = c) - 1
       ELSE (CHOOSE i \in 1..16 : UpperHexDigits[i] = c) - 1]
\* value of one hex character, -1 when it is none
HexVal(c) == IF c \in DOMAIN HexValues THEN HexValues[c] ELSE -1

NilObjectID == [i \in 1..ObjectIDBytes |-> 0]

\* ObjectID.Hex(): two lower-case hex digits per byte
Hex(oid) ==
  [i \in 1..(2 * ObjectIDBytes) |->
     IF i % 2 = 1 THEN HexDigits[(oid[(i + 1) \div 2] \div 16) + 1]
                  ELSE HexDigits[(oid[i \div 2] % 16) + 1]]

\* primitive.ObjectIDFromHex: 24 hex digits or an error (and the nil id)
ObjectIDFromHex(s) ==
  IF Len(s) # 2 * ObjectIDBytes \/ \E i \in 1..Len(s) : HexVal(s[i]) = -1
    THEN [err |-> TRUE, id |-> NilObjectID]
    ELSE [err |-> FALSE,
          id |-> [i \in 1..ObjectIDBytes |->
                    HexVal(s[2 * i - 1]) * 16 + HexVal(s[2 * i])]]

IsValidObjectID(s) == ~ObjectIDFromHex(s).err

\* primitive.NewObjectID: 4 bytes of time, 5 bytes unique to the process,
\* 3 bytes of a counter, all big-endian
ProcessUnique == <<171, 205, 18, 52, 86>>
NewObjectID(ts, ctr) ==
  [i \in 1..ObjectIDBytes |->
     IF i <= 3 THEN 0
     ELSE IF i = 4 THEN ts % 256
     ELSE IF i <= 9 THEN ProcessUnique[i - 4]
     ELSE IF i <= 11 THEN 0
     ELSE ctr % 256]

\* ------------------------------------------------------ JSON and BSON values
JAbsent == [k |-> "absent", s |-> "", b |-> FALSE]
JString(s) == [k |-> "string", s |-> s, b |-> FALSE]
JBool(b) == [k |-> "bool", s |-> "", b |-> b]

BBool(b) == [t |-> "bool", b |-> b, s |-> ""]
BString(s) == [t |-> "string", b |-> FALSE, s |-> s]

\* strconv.FormatBool
FormatBool(b) == IF b THEN "true" ELSE "false"

\* json.Decoder.Decode into the wire struct todo, whose Title and Completed
\* are both Go strings: a JSON string fills the field, an absent member leaves
\* it "", any other JSON type is an UnmarshalTypeError.
StringField(v) == IF v.k = "string" THEN v.s ELSE ""
JSONDecodeTodo(body) ==
  [err |-> ~body.wellFormed \/ body.title.k = "bool" \/ body.completed.k = "bool",
   Title |-> StringField(body.title),
   Completed |-> StringField(body.completed)]

\* ------------------------------------------------------------------ state
VARIABLES
  collection,       \* the documents of db.todo, in the store's natural order
  objectIDCounter,  \* counter of primitive.NewObjectID
  now,              \* the clock time.Now() reads
  connected,        \* TRUE until client.Disconnect
  pc,               \* where main is: "waiting", "signalled", "disconnected", "shutdown", "done"
  stopPending,      \* a signal is buffered in stopChan
  alive,            \* the process is running
  inflight,         \* requests accepted by the server whose handler has not finished
  grace,            \* ticks left of srv.Shutdown's context
  lastReq,          \* the request handled last
  lastResp,         \* what its handler did and answered
  created           \* id -> title of the records created and not named by a later update or delete

vars == <<collection, objectIDCounter, now, connected, pc, stopPending, alive,
          inflight, grace, lastReq, lastResp, created>>


\* --------------------------------------------------------------- requests
Titles == {"", "a", "b"}
TitleVals == {JAbsent} \cup {JString(s) : s \in Titles}
CompletedVals == {JAbsent, JString("true"), JBool(TRUE), JBool(FALSE)}

NoBody == [wellFormed |-> TRUE, title |-> JAbsent, completed |-> JAbsent]
MalformedBody == [wellFormed |-> FALSE, title |-> JAbsent, completed |-> JAbsent]
\* the bodies requests carry: malformed JSON, every title without a completed
\* member, and one title with every completed member
Bodies ==
  {MalformedBody}
    \cup [wellFormed : {TRUE}, title : TitleVals, completed : {JAbsent}]
    \cup [wellFormed : {TRUE}, title : {JString("a")}, completed : CompletedVals]

\* the ids this process can generate: NewObjectID reads the clock and the
\* counter, which advance together (see createTodo)
GeneratedIds == {NewObjectID(k, k) : k \in 1..MaxIds}
ShortId == <<"a", "b", "c">>
NonHexId == [i \in 1..(2 * ObjectIDBytes) |-> IF i = 1 THEN "g" ELSE "0"]
PathIds == {Hex(oid) : oid \in GeneratedIds} \cup {ShortId, NonHexId}

NoId == <<>>
Req(route, id, body, fail) == [route |-> route, id |-> id, body |-> body, fail |-> fail]

\* -------------------------------------------------------------- responses
\* rnd.JSON(w, status, renderer.M{...}): the envelope written, and the store
\* operation the handler issued before writing it
Resp(status, message, error, todoId, data, storeOp) ==
  [outcome |-> "written", status |-> status, message |-> message, error |-> error,
   todo_id |-> todoId, data |-> data, storeOp |-> storeOp]
\* the handler wrote nothing: it panicked (net/http recovers the panic and
\* closes the connection) or it ended the process (log.Fatal)
NoResp(outcome, storeOp) ==
  [outcome |-> outcome, status |-> 0, message |-> "", error |-> "",
   todo_id |-> <<>>, data |-> <<>>, storeOp |-> storeOp]

Finish(req, resp) ==
  /\ lastReq' = req
  /\ lastResp' = resp
  /\ alive' = (resp.outcome # "fatal")

\* ------------------------------------------------------------------ store
\* positions of the documents whose _id is oid
Matching(coll, oid) == {i \in 1..Len(coll) : coll[i]._id = oid}
FirstMatch(coll, oid) == CHOOSE i \in Matching(coll, oid) : \A j \in Matching(coll, oid) : i <= j
RemoveAt(coll, i) == [j \in 1..(Len(coll) - 1) |-> IF j < i THEN coll[j] ELSE coll[j + 1]]

\* a store call fails when the client is disconnected or the call itself
\* fails (timeout, network)
StoreErr(fail) == ~connected \/ fail

\* cursor.All into []todoModel: the bool field Completed decodes a BSON
\* boolean, any document holding another type there fails the whole decode
CursorAllErr(coll) == \E i \in 1..Len(coll) : coll[i].completed.t # "bool"
ToView(d) ==
  [id |-> Hex(d._id), title |-> d.title,
   completed |-> FormatBool(d.completed.b), created_at |-> d.createAt]

Forget(oid) == created' = {c \in created : c.id # oid}

\* faulty variants of the input checks: the title is never checked; only the
\* length of the id is checked
TitleMissingNever(t) == FALSE
InvalidIdLengthOnly(id) == Len(id) # 2 * ObjectIDBytes

\* the handlers' input checks
\* t.Title == ""
TitleMissing(t) == t.Title = ""
\* !primitive.IsValidObjectID(id)
InvalidId(id) == ~IsValidObjectID(id)

\* --------------------------------------------------------------- handlers
homeHandler(fail) ==
  /\ Finish(Req("home", NoId, NoBody, fail),
            IF fail THEN NoResp("fatal", "none")
                    ELSE Resp(StatusOK, "home.tpl", "", <<>>, <<>>, "none"))
  /\ UNCHANGED <<collection, objectIDCounter, now, created>>

fetchTodos(fail) ==
  /\ Finish(Req("list", NoId, NoBody, fail),
       IF StoreErr(fail)
         THEN Resp(StatusBadRequest, "could not fetch todos", "store", <<>>, <<>>, "Find")
       ELSE IF CursorAllErr(collection)
         THEN Resp(StatusBadRequest, "could not decode todos", "decode", <<>>, <<>>, "Find")
       ELSE Resp(StatusOK, "", "", <<>>,
                 [i \in 1..Len(collection) |-> ToView(collection[i])], "Find"))
  /\ UNCHANGED <<collection, objectIDCounter, now, created>>

createTodo(body, fail) ==
  LET t == JSONDecodeTodo(body)
      req == Req("create", NoId, body, fail)
      tm == [_id |-> NewObjectID(now, objectIDCounter), title |-> t.Title,
             completed |-> BBool(FALSE), createAt |-> now]
  IN IF t.err
       THEN /\ Finish(req, Resp(StatusBadRequest, "invalid request", "decode", <<>>, <<>>, "none"))
            /\ UNCHANGED <<collection, objectIDCounter, now, created>>
     ELSE IF TitleMissing(t)
       THEN /\ Finish(req, Resp(StatusBadRequest, "title is required", "bad request", <<>>, <<>>, "none"))
            /\ UNCHANGED <<collection, objectIDCounter, now, created>>
     ELSE /\ objectIDCounter <= MaxIds
          /\ objectIDCounter' = objectIDCounter + 1
          /\ now' = now + 1
          /\ IF StoreErr(fail)
               THEN /\ Finish(req, Resp(StatusBadRequest, "could not create todo", "store",
                                        <<>>, <<>>, "InsertOne"))
                    /\ UNCHANGED <<collection, created>>
               ELSE /\ collection' = Append(collection, tm)
                    /\ created' = created \cup {[id |-> tm._id, title |-> t.Title]}
                    /\ Finish(req, Resp(StatusCreated, "todo created successfully", "",
                                        Hex(tm._id), <<>>, "InsertOne"))

deleteTodo(id, fail) ==
  LET req == Req("delete", id, NoBody, fail)
      objID == ObjectIDFromHex(id).id
  IN IF InvalidId(id)
       THEN /\ Finish(req, Resp(StatusBadRequest, "invalid id", "bad request", <<>>, <<>>, "none"))
            /\ UNCHANGED <<collection, objectIDCounter, now, created>>
     ELSE /\ Forget(objID)
          /\ UNCHANGED <<objectIDCounter, now>>
          /\ IF StoreErr(fail)
               THEN /\ Finish(req, Resp(StatusBadRequest, "could not delete todo", "store",
                                        <<>>, <<>>, "DeleteOne"))
                    /\ UNCHANGED collection
             ELSE IF Matching(collection, objID) = {}
               \* err is nil and DeletedCount is 0: err.Error() dereferences nil
               THEN /\ Finish(req, NoResp("panic", "DeleteOne"))
                    /\ UNCHANGED collection
             ELSE /\ collection' = RemoveAt(collection, FirstMatch(collection, objID))
                  /\ Finish(req, Resp(StatusOK, "todo deleted successfully", "", <<>>, <<>>,
                                      "DeleteOne"))

\* faulty variant of SetFields: the update also stamps the document with the time
SetFieldsStampsCreateAt(d, t) ==
  [d EXCEPT !.title = t.Title, !.completed = BString(t.Completed), !.createAt = now]

\* the document after {"$set": {"title": t.Title, "completed": t.Completed}}:
\* both values are Go strings, so both are written as BSON strings
SetFields(d, t) == [d EXCEPT !.title = t.Title, !.completed = BString(t.Completed)]

updateTodo(id, body, fail) ==
  LET req == Req("update", id, body, fail)
      objID == ObjectIDFromHex(id).id
      t == JSONDecodeTodo(body)
  IN IF InvalidId(id)
       THEN /\ Finish(req, Resp(StatusBadRequest, "invalid id", "bad request", <<>>, <<>>, "none"))
            /\ UNCHANGED <<collection, objectIDCounter, now, created>>
     ELSE IF t.err
       THEN /\ Finish(req, Resp(StatusBadRequest, "invalid request", "decode", <<>>, <<>>, "none"))
            /\ UNCHANGED <<collection, objectIDCounter, now, created>>
     ELSE /\ Forget(objID)
          /\ UNCHANGED <<objectIDCounter, now>>
          /\ IF StoreErr(fail)
               THEN /\ Finish(req, Resp(StatusBadRequest, "could not update todo", "store",
                                        <<>>, <<>>, "UpdateOne"))
                    /\ UNCHANGED collection
             ELSE IF Matching(collection, objID) = {}
               \* err is nil and MatchedCount is 0: err.Error() dereferences nil
               THEN /\ Finish(req, NoResp("panic", "UpdateOne"))
                    /\ UNCHANGED collection
             ELSE /\ collection' = [collection EXCEPT ![FirstMatch(collection, objID)] =
                                      SetFields(@, t)]
                  /\ Finish(req, Resp(StatusOK, "todo updated successfully", "", <<>>, <<>>,
                                      "UpdateOne"))

\* ----------------------------------------------------------- HTTP server
\* srv.ListenAndServe accepts a request and starts its handler
Accept ==
  /\ alive
  /\ pc \in {"waiting", "signalled", "disconnected"}
  /\ inflight < MaxInflight
  /\ inflight' = inflight + 1
  /\ UNCHANGED <<collection, objectIDCounter, now, connected, pc, stopPending, alive,
                 grace, lastReq, lastResp, created>>

\* one accepted request runs its handler to the end; lastReq and lastResp
\* hold one exchange at a time
Handle(handler) ==
  /\ alive
  /\ inflight > 0
  /\ lastReq.route = "none"
  /\ handler
  /\ inflight' = inflight - 1
  /\ UNCHANGED <<connected, pc, stopPending, grace>>

\* the response has left the server (net/http flushes w when the handler
\* returns): the exchange is over
ResponseSent ==
  /\ alive
  /\ lastReq.route # "none"
  /\ lastReq' = Req("none", NoId, NoBody, FALSE)
  /\ lastResp' = NoResp("none", "none")
  /\ UNCHANGED <<collection, objectIDCounter, now, connected, pc, stopPending, alive,
                 inflight, grace, created>>

\* ------------------------------------------------------------ supervisor
\* os.Interrupt is delivered to stopChan, which buffers one signal
Interrupt ==
  /\ alive
  /\ pc = "waiting"
  /\ ~stopPending
  /\ stopPending' = TRUE
  /\ UNCHANGED <<collection, objectIDCounter, now, connected, pc, alive,
                 inflight, grace, lastReq, lastResp, created>>

\* <-stopChan
MainReceive ==
  /\ alive
  /\ pc = "waiting"
  /\ stopPending
  /\ stopPending' = FALSE
  /\ pc' = "signalled"
  /\ UNCHANGED <<collection, objectIDCounter, now, connected, alive,
                 inflight, grace, lastReq, lastResp, created>>

\* faulty variant of MainDisconnect: main goes on to the shutdown with the store
\* still connected
MainDisconnectSkipped ==
  /\ alive
  /\ pc = "signalled"
  /\ pc' = "disconnected"
  /\ UNCHANGED <<collection, objectIDCounter, now, connected, stopPending, alive,
                 inflight, grace, lastReq, lastResp, created>>

\* client.Disconnect(context.Background())
MainDisconnect ==
  /\ alive
  /\ pc = "signalled"
  /\ connected' = FALSE
  /\ pc' = "disconnected"
  /\ UNCHANGED <<collection, objectIDCounter, now, stopPending, alive,
                 inflight, grace, lastReq, lastResp, created>>

\* srv.Shutdown(ctx) starts: the listener closes, the grace period begins
MainShutdownBegin ==
  /\ alive
  /\ pc = "disconnected"
  /\ pc' = "shutdown"
  /\ grace' = GraceTicks
  /\ UNCHANGED <<collection, objectIDCounter, now, connected, stopPending, alive,
                 inflight, lastReq, lastResp, created>>

\* the grace period runs down while requests are still in flight
GraceTick ==
  /\ alive
  /\ pc = "shutdown"
  /\ inflight > 0
  /\ grace > 0
  /\ grace' = grace - 1
  /\ UNCHANGED <<collection, objectIDCounter, now, connected, pc, stopPending, alive,
                 inflight, lastReq, lastResp, created>>

\* srv.Shutdown returns, when no request is in flight or when the context
\* expires; main returns and the process exits
MainShutdownReturn ==
  /\ alive
  /\ pc = "shutdown"
  /\ inflight = 0 \/ grace = 0
  /\ pc' = "done"
  /\ alive' = FALSE
  /\ UNCHANGED <<collection, objectIDCounter, now, connected, stopPending,
                 inflight, grace, lastReq, lastResp, created>>

\* ---------------------------------------------------------- specification
Init ==
  /\ collection = <<>>
  /\ objectIDCounter = 1
  /\ now = 1
  /\ connected = TRUE
  /\ pc = "waiting"
  /\ stopPending = FALSE
  /\ alive = TRUE
  /\ inflight = 0
  /\ grace = GraceTicks
  /\ lastReq = Req("none", NoId, NoBody, FALSE)
  /\ lastResp = NoResp("none", "none")
  /\ created = {}

ServeHome == \E fail \in BOOLEAN : Handle(homeHandler(fail))
ServeList == \E fail \in BOOLEAN : Handle(fetchTodos(fail))
ServeCreate == \E body \in Bodies, fail \in BOOLEAN : Handle(createTodo(body, fail))
ServeDelete == \E id \in PathIds, fail \in BOOLEAN : Handle(deleteTodo(id, fail))
ServeUpdate ==
  \E id \in PathIds, body \in Bodies, fail \in BOOLEAN : Handle(updateTodo(id, body, fail))

\* the serving phase: the listener and the handlers, no interrupt delivered
Next ==
  \/ Accept
  \/ ResponseSent
  \/ ServeHome
  \/ ServeList
  \/ ServeCreate
  \/ ServeDelete
  \/ ServeUpdate

Spec == Init /\ [][Next]_vars


\* the whole life of the process: serving, then the interrupt and the
\* shutdown. Requests are drawn from a smaller set here.
LifecycleBodies ==
  {MalformedBody} \cup [wellFormed : {TRUE}, title : {JAbsent, JString("a")}, completed : {JAbsent}]
LifecyclePathIds == {Hex(NewObjectID(1, 1)), ShortId}

LServeHome == \E fail \in BOOLEAN : Handle(homeHandler(fail))
LServeList == \E fail \in BOOLEAN : Handle(fetchTodos(fail))
LServeCreate == \E body \in LifecycleBodies, fail \in BOOLEAN : Handle(createTodo(body, fail))
LServeDelete == \E id \in LifecyclePathIds, fail \in BOOLEAN : Handle(deleteTodo(id, fail))
LServeUpdate ==
  \E id \in LifecyclePathIds, body \in LifecycleBodies, fail \in BOOLEAN :
    Handle(updateTodo(id, body, fail))

LifecycleNext ==
  \/ Accept
  \/ ResponseSent
  \/ LServeHome
  \/ LServeList
  \/ LServeCreate
  \/ LServeDelete
  \/ LServeUpdate
  \/ Interrupt
  \/ MainReceive
  \/ MainDisconnect
  \/ MainShutdownBegin
  \/ GraceTick
  \/ MainShutdownReturn

\* main is one goroutine that is always scheduled, and the Shutdown context
\* is a timer that always fires
LifecycleSpec ==
  /\ Init
  /\ [][LifecycleNext]_vars
  /\ WF_vars(MainReceive)
  /\ WF_vars(MainDisconnect)
  /\ WF_vars(MainShutdownBegin)
  /\ WF_vars(GraceTick)
  /\ WF_vars(MainShutdownReturn)


\* ----------------------------------------------------------------- claims
\* a step in which the handler of `route` ran
HandledStep(route) == lastReq.route = "none" /\ lastReq'.route = route
\* the request handled last reached a store that answered
StoreAnswered == connected /\ ~lastReq.fail
HasDoc(coll, oid) == Matching(coll, oid) # {}
TodoRoutes == {"list", "create", "update", "delete"}
Envelope400(resp) ==
  resp.outcome = "written" /\ resp.status = StatusBadRequest
    /\ resp.message # "" /\ resp.error # ""

\* C1: a create whose body carries a non-empty title is answered 201 with a
\* non-empty todo_id, and a later list, with no update or delete of that
\* record in between, is answered 200 with a view of it: its id, the
\* submitted title, completed "false" (the store answering both times).
C1_CreateThenList ==
  /\ (/\ lastReq.route = "create"
      /\ lastReq.body.wellFormed
      /\ StringField(lastReq.body.title) # ""
      /\ StoreAnswered)
       => (lastResp.status = StatusCreated /\ lastResp.todo_id # <<>>)
  /\ (lastReq.route = "list" /\ StoreAnswered)
       => \A c \in created :
            /\ lastResp.status = StatusOK
            /\ \E i \in 1..Len(lastResp.data) :
                 /\ lastResp.data[i].id = Hex(c.id)
                 /\ lastResp.data[i].title = c.title
                 /\ lastResp.data[i].completed = "false"

\* C2: an update of an existing id whose body is {title: string, completed:
\* bool} is answered 200, and the record then holds the new title and the
\* submitted boolean, which a list renders as "true" or "false".
C2_UpdateWithBool ==
  (/\ lastReq.route = "update"
   /\ IsValidObjectID(lastReq.id)
   /\ HasDoc(collection, ObjectIDFromHex(lastReq.id).id)
   /\ lastReq.body.wellFormed
   /\ lastReq.body.title.k = "string"
   /\ lastReq.body.completed.k = "bool"
   /\ StoreAnswered)
    => /\ lastResp.status = StatusOK
       /\ \E i \in Matching(collection, ObjectIDFromHex(lastReq.id).id) :
            /\ collection[i].title = lastReq.body.title.s
            /\ collection[i].completed.t = "bool"
            /\ ToView(collection[i]).completed = FormatBool(lastReq.body.completed.b)

\* C3: deleting an existing id removes exactly that record and is answered
\* 200; deleting an id that is absent is answered with the 400 envelope and
\* leaves the collection unchanged (the store answering).
C3_DeleteTwice ==
  [][(HandledStep("delete") /\ IsValidObjectID(lastReq'.id) /\ connected /\ ~lastReq'.fail)
       => LET oid == ObjectIDFromHex(lastReq'.id).id
          IN IF HasDoc(collection, oid)
               THEN /\ lastResp'.status = StatusOK
                    /\ Len(collection') = Len(collection) - 1
                    /\ ~HasDoc(collection', oid)
                    /\ \A i \in 1..Len(collection) :
                         collection[i]._id # oid
                           => \E j \in 1..Len(collection') : collection'[j] = collection[i]
               ELSE /\ Envelope400(lastResp')
                    /\ collection' = collection]_vars

\* C4: a successful update changes the title and completed fields of the
\* record it names and nothing else: that record keeps its id and createAt,
\* and every other record is unchanged.
C4_UpdateFrame ==
  [][(HandledStep("update") /\ lastResp'.status = StatusOK)
       => LET oid == ObjectIDFromHex(lastReq'.id).id
          IN /\ Len(collection') = Len(collection)
             /\ \E i \in 1..Len(collection) :
                  /\ collection[i]._id = oid
                  /\ collection'[i]._id = oid
                  /\ collection'[i].createAt = collection[i].createAt
                  /\ collection'[i].title = StringField(lastReq'.body.title)
                  /\ DOMAIN collection'[i] = DOMAIN collection[i]
                  /\ \A j \in 1..Len(collection) : j # i => collection'[j] = collection[j]]_vars
\* C4 witness: an update answered 200 set a title while another record, of
\* an earlier or later creation time, is in the collection
C4_Witness ==
  /\ lastReq.route = "update"
  /\ lastResp.status = StatusOK
  /\ Len(collection) = 2
  /\ \E i \in 1..2 : collection[i].title = "b" /\ collection[i].createAt = 1

\* C5: a create whose title is empty or absent is answered with the 400
\* envelope, issues no insert and leaves the collection as it was.
C5_EmptyTitleRejected ==
  [][(HandledStep("create") /\ StringField(lastReq'.body.title) = "")
       => /\ Envelope400(lastResp')
          /\ lastResp'.storeOp = "none"
          /\ collection' = collection]_vars
\* C5 witness: a create with an empty title was answered 400 while a record
\* was stored
C5_Witness ==
  /\ lastReq.route = "create"
  /\ lastReq.body.wellFormed
  /\ lastReq.body.title = JString("")
  /\ lastResp.status = StatusBadRequest
  /\ Len(collection) = 1

\* C6: an update or delete whose path id is no valid ObjectID is answered
\* with the 400 envelope and issues no store operation, whatever the body.
C6_InvalidIdRejected ==
  [][((HandledStep("update") \/ HandledStep("delete")) /\ ~IsValidObjectID(lastReq'.id))
       => /\ Envelope400(lastResp')
          /\ lastResp'.storeOp = "none"
          /\ collection' = collection]_vars
\* C6 witness: an update with a 24-character id that is not hex and a body that would
\* decode was answered 400 while a record was stored
C6_Witness ==
  /\ lastReq.route = "update"
  /\ lastReq.id = NonHexId
  /\ lastReq.body.title = JString("b")
  /\ lastResp.status = StatusBadRequest
  /\ Len(collection) = 1

\* C7: every handled request ends with a response written and the process
\* still running: no handler panics and none ends the process.
C7_HandlersComplete ==
  lastReq.route # "none" => (lastResp.outcome = "written" /\ alive)

\* C8: every record created through the API has a non-empty title, after
\* any sequence of creates, updates and deletes.
C8_TitleNeverEmpty ==
  \A i \in 1..Len(collection) : collection[i].title # ""

\* C10: every persisted record's completed field is a boolean, so a list
\* against a store that answers is answered 200 with one view per record.
C10_CompletedIsBool ==
  /\ \A i \in 1..Len(collection) : collection[i].completed.t = "bool"
  /\ (lastReq.route = "list" /\ StoreAnswered)
       => (lastResp.status = StatusOK /\ Len(lastResp.data) = Len(collection))

\* C9: after the interrupt main disconnects the store before it starts the
\* server's shutdown; the listener accepts requests until the shutdown
\* starts, and a /todo request handled after the disconnect gets the 400
\* envelope, with the store's error when it reached the store; Shutdown
\* returns only when no request is in flight or the grace period is over,
\* and can always return once it is over; the process then exits.
C9_ShutdownOrder ==
  /\ [][(pc # "shutdown" /\ pc' = "shutdown") => (~connected /\ pc = "disconnected")]_vars
  /\ [][(connected /\ ~connected') => pc' = "disconnected"]_vars
  /\ [](pc \in {"waiting", "signalled", "disconnected"} /\ alive /\ inflight < MaxInflight
          => ENABLED Accept)
  /\ [](pc = "shutdown" => ~ENABLED Accept)
  /\ [][(~connected /\ lastReq.route = "none" /\ lastReq'.route \in TodoRoutes)
          => /\ Envelope400(lastResp')
             /\ lastResp'.storeOp # "none" => lastResp'.error = "store"]_vars
  /\ [][(pc = "shutdown" /\ pc' # "shutdown") => (inflight = 0 \/ grace = 0)]_vars
  /\ [](pc = "shutdown" /\ alive /\ grace = 0 => ENABLED MainShutdownReturn)
  /\ [](grace \in 0..GraceTicks)
  /\ (stopPending ~> ~alive)
\* C9 witness: a create handled between the disconnect and the shutdown got
\* the store's error
C9_Witness ==
  /\ pc = "disconnected"
  /\ ~connected
  /\ lastReq.route = "create"
  /\ ~lastReq.fail
  /\ lastResp.storeOp = "InsertOne"
  /\ lastResp.error = "store"

====
